---- MODULE Spec2Model ----
(***************************************************************************)
(* Model of Drawing.SphereGraph (src/sphere_graph.js): the construction of *)
(* the city graph (createGraph, drawNode, drawEdge), the projection of     *)
(* geographic coordinates onto the sphere, and the animation loop          *)
(* (animate, render, stop_calculating).                                    *)
(*                                                                         *)
(* Graph and Node are not defined in sphere_graph.js; their operations     *)
(* (GraphNew, limitReached, addNode, addEdge) follow the written           *)
(* specification of the Graph component.                                   *)
(*                                                                         *)
(* Numbers: the code computes positions in floating point.  Here angles    *)
(* are whole degrees, sines come from a table scaled by SinScale, and a    *)
(* projected coordinate is rounded to the nearest whole unit.              *)
(***************************************************************************)
EXTENDS Integers, Sequences, FiniteSets

\* Largest node limit tried for options.limit.
MaxLimit == 8

\* Largest number of stop_calculating calls in one run.
MaxStopCalls == 2

-----------------------------------------------------------------------------
(* Trigonometry in whole degrees.                                          *)

SinScale == 100000

\* SinTable[d + 1] = sin(d degrees) * SinScale, rounded, for d in 0..90.
SinTable ==
  << 0, 1745, 3490, 5234, 6976, 8716, 10453, 12187, 13917, 15643,
     17365, 19081, 20791, 22495, 24192, 25882, 27564, 29237, 30902, 32557,
     34202, 35837, 37461, 39073, 40674, 42262, 43837, 45399, 46947, 48481,
     50000, 51504, 52992, 54464, 55919, 57358, 58779, 60182, 61566, 62932,
     64279, 65606, 66913, 68200, 69466, 70711, 71934, 73135, 74314, 75471,
     76604, 77715, 78801, 79864, 80902, 81915, 82904, 83867, 84805, 85717,
     86603, 87462, 88295, 89101, 89879, 90631, 91355, 92050, 92718, 93358,
     93969, 94552, 95106, 95630, 96126, 96593, 97030, 97437, 97815, 98163,
     98481, 98769, 99027, 99255, 99452, 99619, 99756, 99863, 99939, 99985,
     100000 >>

\* Math.sin of an angle given in degrees (the code passes deg * PI / 180).
SinDeg(d) ==
  LET r == d % 360
  IN  IF r <= 90 THEN SinTable[r + 1]
      ELSE IF r <= 180 THEN SinTable[180 - r + 1]
      ELSE IF r <= 270 THEN 0 - SinTable[r - 180 + 1]
      ELSE 0 - SinTable[360 - r + 1]

\* Math.cos of an angle given in degrees.
CosDeg(d) == SinDeg(d + 90)

\* n / d rounded to the nearest integer (d > 0).
RoundDiv(n, d) == (n + (d \div 2)) \div d

Abs(v) == IF v < 0 THEN 0 - v ELSE v

-----------------------------------------------------------------------------
(* The projection of drawNode.                                             *)

\* var area = 5000;
area == 5000

\* sinA * sinB for two table sines, scaled by SinScale * SinScale / 100;
\* sinA is split at 1000 to keep every product within 32 bits.
MulSin(sinA, sinB) ==
  (sinA \div 1000) * sinB * 10 + RoundDiv((sinA % 1000) * sinB, 100)

\* area * v for v scaled as MulSin scales, rounded to the nearest unit.
AreaTimes(v) == RoundDiv(v, (SinScale \div 100) * (SinScale \div area))

\* A variant that takes the sine of phi where the code takes the cosine,
\* and the cosine where it takes the sine.
drawNodePositionSwapped(p) ==
  LET phi   == 90 - p.x
      theta == 180 - p.y
  IN  [x |-> AreaTimes(MulSin(CosDeg(phi), CosDeg(theta))),
       y |-> RoundDiv(area * SinDeg(phi), SinScale),
       z |-> AreaTimes(MulSin(CosDeg(phi), SinDeg(theta)))]

\* The position object after drawNode's three assignments: phi and theta
\* are read from the object's x and y, which are then overwritten.
drawNodePosition(p) ==
  LET phi   == 90 - p.x
      theta == 180 - p.y
  IN  [x |-> AreaTimes(MulSin(SinDeg(phi), CosDeg(theta))),
       y |-> RoundDiv(area * CosDeg(phi), SinScale),
       z |-> AreaTimes(MulSin(SinDeg(phi), SinDeg(theta)))]

-----------------------------------------------------------------------------
(* The arc of drawEdge.                                                    *)

\* A variant that passes the source position as the curve's last point.
drawEdgeCurveSameEnd(s, t, sourceXy, targetXy) ==
  LET diffX == Abs(sourceXy.x - targetXy.x)
      diffY == Abs(sourceXy.y - targetXy.y)
  IN  [source |-> s, target |-> t,
       v0 |-> sourceXy,
       middle26 |-> [x |-> 13 * (sourceXy.x + targetXy.x),
                     y |-> 13 * (sourceXy.y + targetXy.y),
                     z |-> 13 * (sourceXy.z + targetXy.z)
                           + 26 * diffX + 20 * diffY],
       v2 |-> sourceXy]

\* The three control points of the quadratic Bezier curve of drawEdge.
\* middle is kept as numerators over 26:
\*   26 * AvgX = 13 * (sx + tx),  26 * AvgY = 13 * (sy + ty),
\*   26 * (AvgZ + diffX + diffY / 1.3) = 13 * (sz + tz) + 26 * diffX + 20 * diffY.
drawEdgeCurve(s, t, sourceXy, targetXy) ==
  LET diffX == Abs(sourceXy.x - targetXy.x)
      diffY == Abs(sourceXy.y - targetXy.y)
  IN  [source |-> s, target |-> t,
       v0 |-> sourceXy,
       middle26 |-> [x |-> 13 * (sourceXy.x + targetXy.x),
                     y |-> 13 * (sourceXy.y + targetXy.y),
                     z |-> 13 * (sourceXy.z + targetXy.z)
                           + 26 * diffX + 20 * diffY],
       v2 |-> targetXy]

-----------------------------------------------------------------------------
(* Graph: node and edge container with an optional node limit.             *)

GraphNew(opts) ==
  [options |-> opts, nodes |-> <<>>, edges |-> <<>>, layout |-> "undefined"]

SeqRange(s) == {s[k] : k \in DOMAIN s}

limitReached(g) ==
  IF "limit" \in DOMAIN g.options THEN g.options.limit <= Len(g.nodes)
  ELSE FALSE

\* addNode(node) -> bool: registers the id unless it is present or the limit
\* is reached; a failure leaves the graph as it was.
addNode(g, id) ==
  IF id \notin SeqRange(g.nodes) /\ ~limitReached(g)
  THEN [ok |-> TRUE, graph |-> [g EXCEPT !.nodes = Append(@, id)]]
  ELSE [ok |-> FALSE, graph |-> g]

\* addEdge(a, b) -> bool: registers the edge unless a = b or the unordered
\* pair is connected already; a failure leaves the graph as it was.
addEdge(g, a, b) ==
  IF a # b /\ <<a, b>> \notin SeqRange(g.edges)
           /\ <<b, a>> \notin SeqRange(g.edges)
  THEN [ok |-> TRUE, graph |-> [g EXCEPT !.edges = Append(@, <<a, b>>)]]
  ELSE [ok |-> FALSE, graph |-> g]

-----------------------------------------------------------------------------
(* Inputs.                                                                 *)

\* var cities = [...] of createGraph.
Cities ==
  << [data |-> "Bordeax",  position |-> [x |-> 44,  y |-> 0]],
     [data |-> "Bangkok",  position |-> [x |-> 13,  y |-> 100]],
     [data |-> "Bombay",   position |-> [x |-> 19,  y |-> 72]],
     [data |-> "Beijing",  position |-> [x |-> 39,  y |-> 116]],
     [data |-> "Berlin",   position |-> [x |-> 52,  y |-> 13]],
     [data |-> "Brisbane", position |-> [x |-> -27, y |-> 153]],
     [data |-> "Santiago", position |-> [x |-> -33, y |-> -70]] >>

\* Node ids: new Node(i) for i = 0 .. cities.length - 1.
NodeIds == 0 .. (Len(Cities) - 1)

\* The options object given to Drawing.SphereGraph: limit absent or set,
\* showInfo false or true.
OptionSet ==
  {[showInfo |-> b] : b \in BOOLEAN}
  \cup {[limit |-> n, showInfo |-> b] : n \in 1..MaxLimit, b \in BOOLEAN}

\* A constructor that forgets to hand the limit to the graph.
GraphOptionsNoLimit(opts) == <<>>

\* new Graph({limit: options.limit}): the limit is passed when it is set.
GraphOptions(opts) ==
  IF "limit" \in DOMAIN opts THEN [limit |-> opts.limit] ELSE <<>>

\* camera.position: the start position of init() and two positions the
\* trackball controls can move the camera to.
CameraStart == <<0, 0, 10000>>
CameraPositions == {CameraStart, <<0, 0, 6000>>, <<8000, 0, 6000>>}

\* Geographic inputs for the projection alone: whole degrees.
GeoInputs ==
  {[x |-> lat, y |-> lng] :
     lat \in {-90, -60, -40, -33, -27, 0, 13, 19, 30, 39, 44, 52, 60, 90},
     lng \in {-180, -135, -90, -70, -45, 0, 13, 45, 72, 90, 100, 116, 153, 180}}

-----------------------------------------------------------------------------
VARIABLES
  options,      \* the options object of the constructor
  pc,           \* "createNodes", "createEdges", "inner", "animate", "running",
                \* or "project" (projection alone)
  i,            \* index of the for loop over cities
  posHeap,      \* the position objects: posHeap[k] is the object that both
                \* cities[k].position and node k's position refer to
  graph,        \* the Graph
  nodes,        \* the local work list `nodes` of createGraph (node ids)
  current,      \* the node shifted from the work list
  l,            \* index of the inner loop
  sceneNodes,   \* ids of the draw objects added to the scene by drawNode
  arcs,         \* the curves added to the scene by drawEdge
  projCount,    \* history: how often drawNode projected node k
  addResults,   \* history: the results of the addNode calls, in order
  lastAttempt,  \* history: <<source, target>> of the last addEdge call
  pending,      \* an animation frame callback is requested
  lastTick,     \* outcome of the last animate call
  tickBit,      \* flips on every animate call
  camera,       \* camera.position
  facing,       \* facing[k]: the point draw object k was last turned to
  constructed,  \* the constructor returned (this.stop_calculating exists)
  stopCalls,    \* history: number of stop_calculating calls
  stopOutcome,  \* outcome of the last stop_calculating call
  geoIn,        \* projection alone: the input coordinate
  posOut,       \* projection alone: the position object
  projected     \* projection alone: the projection was applied

vars == <<options, pc, i, posHeap, graph, nodes, current, l, sceneNodes, arcs,
          projCount, addResults, lastAttempt, pending, lastTick, tickBit,
          camera, facing, constructed, stopCalls, stopOutcome,
          geoIn, posOut, projected>>

graphVars == <<graph, nodes, current, l, i, sceneNodes, arcs, projCount,
               addResults, lastAttempt, posHeap>>
loopVars  == <<pending, lastTick, tickBit, camera, facing, constructed>>
stopVars  == <<stopCalls, stopOutcome>>
projVars  == <<geoIn, posOut, projected>>

\* The state after init(): nothing created yet, camera at its start position.
Init ==
  /\ options \in OptionSet
  /\ pc = "createNodes"
  /\ i = 0
  /\ posHeap = [k \in NodeIds |-> Cities[k + 1].position]
  /\ graph = GraphNew(GraphOptions(options))
  /\ nodes = <<>>
  /\ current = -1
  /\ l = 0
  /\ sceneNodes = <<>>
  /\ arcs = <<>>
  /\ projCount = [k \in NodeIds |-> 0]
  /\ addResults = <<>>
  /\ lastAttempt = <<>>
  /\ pending = FALSE
  /\ lastTick = "none"
  /\ tickBit = 0
  /\ camera = CameraStart
  /\ facing = [k \in NodeIds |-> <<>>]
  /\ constructed = FALSE
  /\ stopCalls = 0
  /\ stopOutcome = "none"
  /\ geoIn = [x |-> 0, y |-> 0]
  /\ posOut = [x |-> 0, y |-> 0]
  /\ projected = FALSE

-----------------------------------------------------------------------------
(* createGraph.                                                            *)

\* One iteration of the for loop: new Node(i), node.position =
\* cities[i].position, nodes.push, graph.addNode, drawNode.
CreateNodeStep ==
  /\ pc = "createNodes"
  /\ i < Len(Cities)
  /\ LET r == addNode(graph, i)
     IN  /\ graph' = r.graph
         /\ addResults' = Append(addResults, r.ok)
  /\ nodes' = Append(nodes, i)
  /\ posHeap' = [posHeap EXCEPT ![i] = drawNodePosition(@)]
  /\ projCount' = [projCount EXCEPT ![i] = @ + 1]
  /\ sceneNodes' = Append(sceneNodes, i)
  /\ i' = i + 1
  /\ pc' = IF i + 1 < Len(Cities) THEN "createNodes" ELSE "createEdges"
  /\ UNCHANGED <<options, current, l, arcs, lastAttempt>>
  /\ UNCHANGED <<loopVars, stopVars, projVars>>

\* A variant whose inner loop stops one element early.
InnerLoopDoneEarly(k, work) == k >= Len(work) - 1

\* The inner loop is over once l reaches nodes.length.
InnerLoopDone(k, work) == k >= Len(work)

\* while(nodes.length): var current = nodes.shift(); l = 0.
ShiftStep ==
  /\ pc = "createEdges"
  /\ nodes # <<>>
  /\ current' = Head(nodes)
  /\ nodes' = Tail(nodes)
  /\ l' = 0
  /\ pc' = IF InnerLoopDone(0, Tail(nodes)) THEN "createEdges" ELSE "inner"
  /\ UNCHANGED <<options, i, posHeap, graph, sceneNodes, arcs, projCount,
                 addResults, lastAttempt>>
  /\ UNCHANGED <<loopVars, stopVars, projVars>>

\* One iteration of the inner loop: target = nodes[l];
\* if(graph.addEdge(current, target)) drawEdge(current, target).
EdgeStep ==
  /\ pc = "inner"
  /\ ~InnerLoopDone(l, nodes)
  /\ LET target == nodes[l + 1]
         r == addEdge(graph, current, target)
     IN  /\ graph' = r.graph
         /\ lastAttempt' = <<current, target>>
         /\ arcs' = IF r.ok
                    THEN Append(arcs, drawEdgeCurve(current, target,
                                       posHeap[current], posHeap[target]))
                    ELSE arcs
  /\ l' = l + 1
  /\ pc' = IF InnerLoopDone(l + 1, nodes) THEN "createEdges" ELSE "inner"
  /\ UNCHANGED <<options, i, posHeap, nodes, current, sceneNodes, projCount,
                 addResults>>
  /\ UNCHANGED <<loopVars, stopVars, projVars>>

\* The while loop ends with the work list empty; the constructor goes on
\* to call animate().
CreateGraphDone ==
  /\ pc = "createEdges"
  /\ nodes = <<>>
  /\ pc' = "animate"
  /\ UNCHANGED <<options, graphVars, loopVars, stopVars, projVars>>

-----------------------------------------------------------------------------
(* animate, render, stop_calculating.                                      *)

\* The outcomes of one animate call: it returns, or controls.update,
\* render or printInfo throws.  printInfo runs only when show_info is set.
ThrewOutcomes == {"threwUpdate", "threwRender", "threwInfo"}
TickOutcomes(opts) ==
  {"ok", "threwUpdate", "threwRender"}
  \cup (IF opts.showInfo THEN {"threwInfo"} ELSE {})

\* A variant that requests the next frame as the last statement of animate.
PendingAfterTickLast(outcome) == outcome = "ok"

\* requestAnimationFrame(animate) is the first statement of animate: the
\* next frame is requested whatever the rest of the call does.
PendingAfterTick(outcome) == TRUE

\* A variant of render that runs a layout pass, re-projecting every node of
\* the graph.
renderWithLayout(g, heap, fc, cam) ==
  [posHeap |-> [k \in NodeIds |->
                  IF k \in SeqRange(g.nodes) THEN drawNodePosition(heap[k])
                  ELSE heap[k]],
   facing  |-> [k \in NodeIds |->
                  IF k \in SeqRange(g.nodes) THEN cam ELSE fc[k]]]

\* render(): every node of graph.nodes has its draw object turned to the
\* camera; positions are not written (the layout pass is commented out).
render(g, heap, fc, cam) ==
  [posHeap |-> heap,
   facing  |-> [k \in NodeIds |->
                  IF k \in SeqRange(g.nodes) THEN cam ELSE fc[k]]]

\* One call of animate: the constructor's own call (pc = "animate") or a
\* requested frame.  controls.update may move the camera.  render's throw
\* comes from the renderer, after the draw objects were turned.
Animate(outcome, cam) ==
  /\ \/ pc = "animate"
     \/ pc = "running" /\ pending
  /\ outcome \in TickOutcomes(options)
  /\ pending' = PendingAfterTick(outcome)
  /\ IF outcome = "threwUpdate"
     THEN UNCHANGED <<camera, facing, posHeap>>
     ELSE LET r == render(graph, posHeap, facing, cam)
          IN  /\ camera' = cam
              /\ facing' = r.facing
              /\ posHeap' = r.posHeap
  /\ lastTick' = outcome
  /\ tickBit' = 1 - tickBit
  /\ constructed' = IF pc = "animate" THEN outcome = "ok" ELSE constructed
  /\ pc' = "running"
  /\ UNCHANGED <<options, graph, nodes, current, l, i, sceneNodes, arcs,
                 projCount, addResults, lastAttempt>>
  /\ UNCHANGED <<stopVars, projVars>>

AnimateTick == \E outcome \in {"ok"} \cup ThrewOutcomes :
                 \E cam \in CameraPositions : Animate(outcome, cam)

\* The trackball controls move the camera on user input and dispatch
\* 'change', whose listener is render.
ControlsChange ==
  /\ pc = "running"
  /\ \E cam \in CameraPositions \ {camera} :
       LET r == render(graph, posHeap, facing, cam)
       IN  /\ camera' = cam
           /\ facing' = r.facing
           /\ posHeap' = r.posHeap
  /\ UNCHANGED <<options, pc, graph, nodes, current, l, i, sceneNodes, arcs,
                 projCount, addResults, lastAttempt, pending, lastTick,
                 tickBit, constructed>>
  /\ UNCHANGED <<stopVars, projVars>>

\* this.stop_calculating: graph.layout.stop_calculating().  graph.layout is
\* never assigned (the assignment in createGraph is commented out), so the
\* call throws; it touches neither the frame request nor anything else.
StopCalculating ==
  /\ pc = "running"
  /\ constructed
  /\ stopCalls < MaxStopCalls
  /\ stopCalls' = stopCalls + 1
  /\ stopOutcome' = IF graph.layout = "undefined" THEN "threw" ELSE "ok"
  /\ UNCHANGED <<options, pc, graphVars, loopVars, projVars>>

Next ==
  \/ CreateNodeStep
  \/ ShiftStep
  \/ EdgeStep
  \/ CreateGraphDone
  \/ AnimateTick
  \/ ControlsChange
  \/ StopCalculating

Spec == Init /\ [][Next]_vars

\* The host runs a requested animation frame callback.
FairSpec == Spec /\ WF_vars(AnimateTick)

-----------------------------------------------------------------------------
(* The projection alone, on a range of geographic inputs.                  *)

ProjInit ==
  /\ options = [showInfo |-> FALSE]
  /\ pc = "project"
  /\ i = 0
  /\ posHeap = [k \in NodeIds |-> Cities[k + 1].position]
  /\ graph = GraphNew(GraphOptions(options))
  /\ nodes = <<>>
  /\ current = -1
  /\ l = 0
  /\ sceneNodes = <<>>
  /\ arcs = <<>>
  /\ projCount = [k \in NodeIds |-> 0]
  /\ addResults = <<>>
  /\ lastAttempt = <<>>
  /\ pending = FALSE
  /\ lastTick = "none"
  /\ tickBit = 0
  /\ camera = CameraStart
  /\ facing = [k \in NodeIds |-> <<>>]
  /\ constructed = FALSE
  /\ stopCalls = 0
  /\ stopOutcome = "none"
  /\ geoIn \in GeoInputs
  /\ posOut = geoIn
  /\ projected = FALSE

\* The three assignments of drawNode applied to a position object that
\* holds the geographic input.
ProjApply ==
  /\ pc = "project"
  /\ ~projected
  /\ posOut' = drawNodePosition(posOut)
  /\ projected' = TRUE
  /\ UNCHANGED <<options, pc, geoIn, graphVars, loopVars, stopVars>>

ProjNext == ProjApply

ProjSpec == ProjInit /\ [][ProjNext]_vars

-----------------------------------------------------------------------------
(* Properties.                                                             *)

NoLimit == "limit" \notin DOMAIN options
Built == pc \in {"animate", "running"}
Registered == SeqRange(graph.nodes)
Pair(e) == {e[1], e[2]}
AllPairs == {{a, b} : a, b \in NodeIds} \ {{a} : a \in NodeIds}

\* C1: with no node limit, in every state of createGraph the edges hold no
\* self-loop and no unordered pair twice, and drawEdge ran exactly once per
\* edge (arc k joins the ends of edge k); once createGraph is over there are
\* exactly 21 edges, one for each unordered pair of distinct cities.
AllPairsConnected ==
  NoLimit =>
    /\ \A k \in DOMAIN graph.edges :
         /\ graph.edges[k][1] # graph.edges[k][2]
         /\ \A m \in DOMAIN graph.edges :
              m # k => Pair(graph.edges[m]) # Pair(graph.edges[k])
    /\ Len(arcs) = Len(graph.edges)
    /\ \A k \in DOMAIN arcs :
         <<arcs[k].source, arcs[k].target>> = graph.edges[k]
    /\ Built => /\ Len(graph.edges) = 21
                /\ {Pair(graph.edges[k]) : k \in DOMAIN graph.edges} = AllPairs

AllPairsConnectedWitness ==
  /\ NoLimit
  /\ pc = "running"
  /\ Len(graph.edges) = 21
  /\ Len(arcs) = 21

\* C2: the nodes drawn (draw object added to the scene) are exactly the
\* nodes registered in the graph, in every run.
DrawnOnlyIfAdded == SeqRange(sceneNodes) = Registered

\* C3: with a limit L, 0 < L < 7, the seven addNode attempts leave exactly
\* the first L cities registered, the first L attempts succeed and the others
\* fail; a failed attempt leaves the graph's nodes and edges unchanged.
LimitKeepsFirstNodes ==
  /\ [](("limit" \in DOMAIN options /\ options.limit < Len(Cities)
          /\ pc # "createNodes")
        => /\ graph.nodes = [k \in 1..options.limit |-> k - 1]
           /\ Len(addResults) = Len(Cities)
           /\ \A k \in DOMAIN addResults :
                addResults[k] = (k <= options.limit))
  /\ [][(/\ Len(addResults') = Len(addResults) + 1
         /\ ~addResults'[Len(addResults')])
        => (graph'.nodes = graph.nodes /\ graph'.edges = graph.edges)]_vars

LimitKeepsFirstNodesWitness ==
  /\ "limit" \in DOMAIN options
  /\ options.limit = 3
  /\ pc = "createEdges"
  /\ Len(addResults) = Len(Cities)
  /\ ~addResults[4]
  /\ Len(graph.nodes) = 3

\* C4: each node is projected exactly once, during createGraph; once
\* createGraph is over, no animate call, render call or controls change
\* alters the graph's nodes, its edges or any node's position.
PositionsFixedAfterBuild ==
  /\ [](\A k \in NodeIds : projCount[k] <= 1)
  /\ [](Built => \A k \in NodeIds : projCount[k] = 1)
  /\ [][Built => /\ graph'.nodes = graph.nodes
                 /\ graph'.edges = graph.edges
                 /\ posHeap' = posHeap]_vars

PositionsFixedAfterBuildWitness ==
  /\ pc = "running"
  /\ lastTick = "ok"
  /\ camera # CameraStart
  /\ facing[0] = camera
  /\ \A k \in NodeIds : posHeap[k] = drawNodePosition(Cities[k + 1].position)

\* C5: the geographic coordinate a node was created with, and the
\* coordinate stored in the city list, keep their values for the whole run.
GeoPositionKept ==
  \A k \in NodeIds :
    /\ posHeap[k].x = Cities[k + 1].position.x
    /\ posHeap[k].y = Cities[k + 1].position.y

\* C6: once stop_calculating was called, no animation frame is requested.
StopEndsLoop == stopCalls > 0 => ~pending

\* C7: after an animate call in which controls.update, render or printInfo
\* threw, the next frame is requested, and the next animate call runs.
FailedTickKeepsLoop ==
  /\ [](lastTick \in ThrewOutcomes => pending)
  /\ \A b \in {0, 1} :
       (lastTick \in ThrewOutcomes /\ tickBit = b) ~> (tickBit # b)

FailedTickKeepsLoopWitness ==
  /\ pc = "running"
  /\ lastTick = "threwRender"
  /\ pending

\* C8 as amended: projecting (x = 0, y = 0) yields (-area, 0, 0): a point
\* at distance area from the origin, on the plane y = 0.
OriginProjection ==
  (pc = "project" /\ projected /\ geoIn = [x |-> 0, y |-> 0])
  => /\ posOut = [x |-> 0 - area, y |-> 0, z |-> 0]
     /\ posOut.x * posOut.x + posOut.y * posOut.y + posOut.z * posOut.z
          = area * area

OriginProjectionWitness ==
  /\ pc = "project"
  /\ projected
  /\ geoIn = [x |-> 0, y |-> 0]

\* C8 as stated: projecting (x = 0, y = 0) yields (0, area, 0), on the
\* plane x = 0.
OriginProjectionAsStated ==
  (pc = "project" /\ projected /\ geoIn = [x |-> 0, y |-> 0])
  => posOut = [x |-> 0, y |-> area, z |-> 0]

\* C9: every arc was drawn after drawNode projected both its nodes; its
\* first and last control points are the projected positions of source and
\* target, with x, y and z all defined.
ArcEndsProjected ==
  \A k \in DOMAIN arcs :
    LET a == arcs[k]
    IN  /\ projCount[a.source] = 1
        /\ projCount[a.target] = 1
        /\ DOMAIN a.v0 = {"x", "y", "z"}
        /\ DOMAIN a.v2 = {"x", "y", "z"}
        /\ a.v0 = drawNodePosition(Cities[a.source + 1].position)
        /\ a.v2 = drawNodePosition(Cities[a.target + 1].position)

ArcEndsProjectedWitness ==
  /\ Len(arcs) = 21
  /\ arcs[21].source = 5
  /\ arcs[21].target = 6
  /\ arcs[21].v2 = drawNodePosition(Cities[7].position)

\* C10: both ends of every edge of the graph are registered nodes, and
\* addEdge is never called with a node whose addNode call failed.
EdgeEndsRegistered ==
  /\ \A k \in DOMAIN graph.edges :
       /\ graph.edges[k][1] \in Registered
       /\ graph.edges[k][2] \in Registered
  /\ lastAttempt # <<>> =>
       /\ lastAttempt[1] \in Registered
       /\ lastAttempt[2] \in Registered

====
